---- MODULE Spec2Model ----
(***************************************************************************)
(* Model of notify_visualizer.py: the text ellipsizer, the cover-fit image *)
(* fitter, the image fetcher and the generate / clear handlers of the      *)
(* notification previewer.                                                 *)
(*                                                                         *)
(* A Python str is a sequence of one-character strings.  The ellipsis      *)
(* character U+2026 is the single element ELLIPSIS.                        *)
(***************************************************************************)
EXTENDS Integers, Sequences, FiniteSets, TLC

VARIABLES
    pc,          \* harness of a single function call: "call" or "return"
    args,        \* the arguments of that call
    ret,         \* what the call returned
    cairosvg,    \* module global: TRUE when `import cairosvg` succeeded
    title_var,   \* App.title_var
    body_text,   \* App.body_text
    img_var,     \* App.img_var
    last_img,    \* App._last_img
    collapsed,   \* App.collapsed (NotificationPreview, mode "collapsed")
    expanded,    \* App.expanded (NotificationPreview, mode "expanded")
    run          \* what the handler that ran last did (GETs, warnings, ...)

vars == <<pc, args, ret, cairosvg, title_var, body_text, img_var, last_img,
          collapsed, expanded, run>>

appVars == <<title_var, body_text, img_var, last_img, collapsed, expanded, run>>

None == [kind |-> "None"]

----------------------------------------------------------------------------
(* Bounds of the model *)

MaxLen == 4        \* longest text handed to ellipsize in the harness
MaxBudget == 4     \* largest max_chars in the harness
MaxTail == 2       \* longest free tail of a long notification body

----------------------------------------------------------------------------
(* str helpers *)

ELLIPSIS == "ELLIPSIS"
LF == "\n"
SP == " "
TAB == "\t"

Alphabet == {"a", SP, LF, TAB}

\* the characters str.strip() / str.rstrip() remove, among Alphabet
Whitespace == {SP, LF, TAB}

Strings(n) == UNION {[1..k -> Alphabet] : k \in 0..n}

Rep(c, n) == [i \in 1..n |-> c]

\* str.replace(old, new) for one-character old and new
replace(s, old, new) == [i \in 1..Len(s) |-> IF s[i] = old THEN new ELSE s[i]]

RECURSIVE lstrip(_)
lstrip(s) ==
    IF s # <<>> /\ Head(s) \in Whitespace THEN lstrip(Tail(s)) ELSE s

RECURSIVE rstrip(_)
rstrip(s) ==
    IF s # <<>> /\ s[Len(s)] \in Whitespace
    THEN rstrip(SubSeq(s, 1, Len(s) - 1))
    ELSE s

strip(s) == rstrip(lstrip(s))

\* ellipsize with the trailing rstrip() of the cut left out
ellipsize_no_rstrip(text, max_chars) ==
    LET t == strip(replace(text, LF, SP)) IN
    IF Len(t) <= max_chars THEN t
    ELSE IF max_chars <= 1 THEN <<ELLIPSIS>>
    ELSE SubSeq(t, 1, max_chars - 1) \o <<ELLIPSIS>>

\* ellipsize that cuts at max_chars and then appends the marker
ellipsize_cut_late(text, max_chars) ==
    LET t == strip(replace(text, LF, SP)) IN
    IF Len(t) <= max_chars THEN t
    ELSE IF max_chars <= 1 THEN <<ELLIPSIS>>
    ELSE rstrip(SubSeq(t, 1, max_chars)) \o <<ELLIPSIS>>

ellipsize(text, max_chars) ==
    LET t == strip(replace(text, LF, SP)) IN
    IF Len(t) <= max_chars THEN t
    ELSE IF max_chars <= 1 THEN <<ELLIPSIS>>
    ELSE rstrip(SubSeq(t, 1, max_chars - 1)) \o <<ELLIPSIS>>

----------------------------------------------------------------------------
(* Python float: IEEE 754 binary64, round to nearest, ties to even.        *)
(* A positive float is [m |-> bits, e |-> k]: MantBits bits, most          *)
(* significant first and leading bit 1, read as a natural M; its value is  *)
(* M * 2^k.                                                                *)

MantBits == 53

RECURSIVE Pow2(_)
Pow2(k) == IF k = 0 THEN 1 ELSE 2 * Pow2(k - 1)

RECURSIVE BitsToNat(_)
BitsToNat(bs) ==
    IF bs = <<>> THEN 0
    ELSE 2 * BitsToNat(SubSeq(bs, 1, Len(bs) - 1)) + bs[Len(bs)]

RECURSIVE NatToBits(_)
NatToBits(n) == IF n = 0 THEN <<>> ELSE NatToBits(n \div 2) \o <<n % 2>>

\* bs + 1, same length; all ones wraps to all zeros
IncBits(bs) ==
    LET zeros == {i \in 1..Len(bs) : bs[i] = 0}
        j == IF zeros = {} THEN 0
             ELSE CHOOSE i \in zeros : \A k \in zeros : k <= i
    IN  [i \in 1..Len(bs) |-> IF i < j THEN bs[i] ELSE IF i = j THEN 1 ELSE 0]

\* Round the natural `bits` (at least MantBits of them, leading bit 1; sticky
\* says a non-zero part lies below the last bit) to MantBits bits.
\* Returns the float of value round(bits) * 2^0.
RoundBits(bits, sticky) ==
    LET keep == SubSeq(bits, 1, MantBits)
        rest == SubSeq(bits, MantBits + 1, Len(bits))
        half == rest # <<>> /\ rest[1] = 1
        more == sticky \/ \E i \in 2..Len(rest) : rest[i] = 1
        up   == half /\ (more \/ keep[MantBits] = 1)
        inc  == IncBits(keep)
    IN  IF ~up THEN [m |-> keep, e |-> Len(rest)]
        ELSE IF inc[1] = 1 THEN [m |-> inc, e |-> Len(rest)]
        ELSE [m |-> <<1>> \o SubSeq(inc, 1, MantBits - 1), e |-> Len(rest) + 1]

\* the k with b * 2^k <= a < b * 2^(k+1)
RECURSIVE Log2Floor(_, _)
Log2Floor(a, b) ==
    IF a < b THEN Log2Floor(2 * a, b) - 1
    ELSE IF a >= 2 * b THEN Log2Floor(a, 2 * b) + 1
    ELSE 0

\* 2^k mod d, by squaring
RECURSIVE PowMod(_, _)
PowMod(k, d) ==
    IF k = 0 THEN 1 % d
    ELSE LET h == PowMod(k \div 2, d)
         IN  (h * h * (IF k % 2 = 1 THEN 2 ELSE 1)) % d

\* n more quotient bits of r / d (r < d), and the remainder left: bit i of
\* the long division is floor(2 * (r * 2^(i-1) mod d) / d)
DivBits(r, d, n) ==
    [bits |-> [i \in 1..n |-> (2 * ((r * PowMod(i - 1, d)) % d)) \div d],
     rem  |-> (r * PowMod(n, d)) % d]

\* a / b for ints a, b > 0 (true division, correctly rounded)
FDiv(a, b) ==
    LET k  == Log2Floor(a, b)
        n0 == IF k < 0 THEN a * Pow2(-k) ELSE a
        d0 == IF k < 0 THEN b ELSE b * Pow2(k)
        q  == DivBits(n0 - d0, d0, MantBits)
        r  == RoundBits(<<1>> \o q.bits, q.rem # 0)
    IN  [m |-> r.m, e |-> r.e + k - MantBits]

\* the Limb bits of x, most significant first
Limb == 14
LimbBits(x) == [i \in 1..Limb |-> (x \div Pow2(Limb - i)) % 2]

\* the natural bs * n as bits (bs of at most 4 * Limb bits, n < 2^13):
\* school multiplication on limbs of Limb bits, lowest limb first
MulBits(bs, n) ==
    LET pad == [i \in 1..(4 * Limb - Len(bs)) |-> 0] \o bs
        L(k) == BitsToNat(SubSeq(pad, Limb * (k - 1) + 1, Limb * k))
        v4 == L(4) * n
        v3 == L(3) * n + v4 \div Pow2(Limb)
        v2 == L(2) * n + v3 \div Pow2(Limb)
        v1 == L(1) * n + v2 \div Pow2(Limb)
        all == NatToBits(v1) \o LimbBits(v2 % Pow2(Limb))
                   \o LimbBits(v3 % Pow2(Limb)) \o LimbBits(v4 % Pow2(Limb))
        lead == CHOOSE i \in 1..Len(all) :
                    all[i] = 1 /\ \A j \in 1..(i - 1) : all[j] = 0
    IN  SubSeq(all, lead, Len(all))

\* n * f for an int n > 0 and a float f (n converts exactly)
FMulInt(n, f) ==
    LET r == RoundBits(MulBits(f.m, n), FALSE)
    IN  [m |-> r.m, e |-> r.e + f.e]

\* x < y for bit strings of one length
BitsLess(x, y) ==
    \E i \in 1..Len(x) : x[i] < y[i] /\ \A j \in 1..(i - 1) : x[j] = y[j]

FLess(f, g) == f.e < g.e \/ (f.e = g.e /\ BitsLess(f.m, g.m))

\* max(x, y): the first of the largest
FMax(x, y) == IF FLess(x, y) THEN y ELSE x

\* int(f): truncation
FTrunc(f) ==
    IF f.e >= 0 THEN BitsToNat(f.m) * Pow2(f.e)
    ELSE IF MantBits + f.e <= 0 THEN 0
    ELSE BitsToNat(SubSeq(f.m, 1, MantBits + f.e))

----------------------------------------------------------------------------
(* Pillow: a bitmap is Bitmap(width, height); the outcome of a call is     *)
(* [raised |-> BOOLEAN, value |-> what it returned].                       *)

Bitmap(w, h) == [kind |-> "Image", w |-> w, h |-> h]

Returns(v) == [raised |-> FALSE, value |-> v]
Raises == [raised |-> TRUE, value |-> None]

\* Image.resize((nw, nh), Image.LANCZOS): ValueError unless both are >= 1
resize(img, nw, nh) ==
    IF nw < 1 \/ nh < 1 THEN Raises ELSE Returns(Bitmap(nw, nh))

\* Image.crop((left, top, right, lower)): the box's size, padded where the
\* box leaves the image
crop(img, left, top, right, lower) == Bitmap(right - left, lower - top)

\* lines 110-111: the crop offsets, with the scaled size
fit_cover_box(nw, nh, target_w, target_h) ==
    [nw |-> nw, nh |-> nh,
     left |-> IF (nw - target_w) \div 2 > 0 THEN (nw - target_w) \div 2 ELSE 0,
     top  |-> IF (nh - target_h) \div 2 > 0 THEN (nh - target_h) \div 2 ELSE 0]

\* line 107: nw, nh = int(iw * scale), int(ih * scale)
fit_cover_scaled(iw, ih, scale, target_w, target_h) ==
    fit_cover_box(FTrunc(FMulInt(iw, scale)), FTrunc(FMulInt(ih, scale)),
                  target_w, target_h)

\* lines 106-111: the locals nw, nh, left and top of fit_cover
fit_cover_scale(img, target_w, target_h) ==
    fit_cover_scaled(img.w, img.h,
                     FMax(FDiv(target_w, img.w), FDiv(target_h, img.h)),
                     target_w, target_h)

\* line 112: the crop of the resized bitmap
fit_cover_crop(resized, s, target_w, target_h) ==
    IF resized.raised THEN Raises
    ELSE Returns(crop(resized.value, s.left, s.top,
                      s.left + target_w, s.top + target_h))

\* lines 108-112: resize to the scaled size, then crop
fit_cover_resize(img, s, target_w, target_h) ==
    fit_cover_crop(resize(img, s.nw, s.nh), s, target_w, target_h)

fit_cover(img, target_w, target_h) ==
    IF img = None THEN Returns(None)
    ELSE IF img.w <= 0 \/ img.h <= 0 THEN Returns(None)
    ELSE fit_cover_resize(img, fit_cover_scale(img, target_w, target_h),
                          target_w, target_h)

----------------------------------------------------------------------------
(* URLs and responses.  A URL is a sequence of pieces: "a" stands for any  *)
(* run of characters free of "?", "#", white space and ".svg"; the other   *)
(* pieces stand for themselves.  A Content-Type is a sequence of pieces    *)
(* too.                                                                    *)

lower_piece(c) ==
    CASE c = ".SVG" -> ".svg"
      [] c = "SVG" -> "svg"
      [] c = "IMAGE/" -> "image/"
      [] c = "+XML" -> "+xml"
      [] OTHER -> c

\* str.lower()
lower(s) == [i \in 1..Len(s) |-> lower_piece(s[i])]

\* str.endswith(".svg")
endswith_svg(s) == s # <<>> /\ s[Len(s)] = ".svg"

\* "svg" in s
contains_svg(s) == \E i \in 1..Len(s) : s[i] = "svg"

\* the index of the first c in s, or Len(s) + 1
find(s, c) ==
    IF \E i \in 1..Len(s) : s[i] = c
    THEN CHOOSE i \in 1..Len(s) : s[i] = c /\ \A j \in 1..(i - 1) : s[j] # c
    ELSE Len(s) + 1

\* urlparse(url).path: the fragment is split off at the first "#", then the
\* query at the first "?"
urlparse_path(url) ==
    LET nofrag == SubSeq(url, 1, find(url, "#") - 1)
    IN  SubSeq(nofrag, 1, find(nofrag, "?") - 1)

\* _looks_like_svg that compares without lower-casing
looks_like_svg_case(url, content_type) ==
    \/ content_type # <<>> /\ contains_svg(content_type)
    \/ endswith_svg(url)
    \/ endswith_svg(urlparse_path(url))

_looks_like_svg(url, content_type) ==
    LET u == lower(url) IN
    IF content_type # <<>> /\ contains_svg(lower(content_type)) THEN TRUE
    ELSE IF endswith_svg(u) THEN TRUE
    ELSE IF endswith_svg(lower(urlparse_path(url))) THEN TRUE
    ELSE FALSE

SVG_OUTPUT_WIDTH == 1200

\* cairosvg.svg2png(bytestring=data, output_width=1200): PNG bytes of the
\* drawing, an exception when data is no SVG
svg2png(data) ==
    IF data.kind = "svg"
    THEN Returns([kind |-> "raster", w |-> SVG_OUTPUT_WIDTH,
                  h |-> (SVG_OUTPUT_WIDTH * data.h) \div data.w])
    ELSE Raises

\* Image.open(io.BytesIO(bytes)).convert("RGB"): the bitmap, an exception
\* when the bytes are no raster image
Image_open(bytes) ==
    IF bytes.kind = "raster" THEN Returns(Bitmap(bytes.w, bytes.h)) ELSE Raises

\* What a call of fetch_image did: the outcome, the GETs sent, the bytes
\* handed to Image.open ("data": the response body, "png_bytes": the
\* rasterizer's output) and the classification of the response.
Fetched(o, gets, opened, class) ==
    [raised |-> o.raised, value |-> o.value, gets |-> gets,
     opened |-> opened, class |-> class]

\* the vector branch falling through to the raster decode on a failure
fetch_svg_fallback(data, have_cairosvg) ==
    IF ~have_cairosvg THEN Fetched(Image_open(data), 1, <<"data">>, "vector")
    ELSE LET png == svg2png(data) IN
         IF png.raised
         THEN Fetched(Image_open(data), 1, <<"data">>, "vector")
         ELSE LET img == Image_open(png.value) IN
              IF img.raised THEN Fetched(Returns(None), 1, <<"png_bytes">>, "vector")
              ELSE Fetched(img, 1, <<"png_bytes">>, "vector")

\* lines 79-87: the vector branch
fetch_svg(data, have_cairosvg) ==
    IF ~have_cairosvg THEN Fetched(Returns(None), 1, <<>>, "vector")
    ELSE LET png == svg2png(data) IN
         IF png.raised THEN Fetched(Returns(None), 1, <<>>, "vector")
         ELSE LET img == Image_open(png.value) IN
              IF img.raised THEN Fetched(Returns(None), 1, <<"png_bytes">>, "vector")
              ELSE Fetched(img, 1, <<"png_bytes">>, "vector")

\* lines 70-91: the body of the try
fetch_image_try(url, resp, have_cairosvg) ==
    IF resp.status # "ok" THEN Fetched(Raises, 1, <<>>, "none")
    ELSE IF _looks_like_svg(url, resp.ctype)
    THEN fetch_svg(resp.data, have_cairosvg)
    ELSE Fetched(Image_open(resp.data), 1, <<"data">>, "raster")

\* an except clause that catches nothing
except_nothing(f) == f

\* lines 93-94: except Exception: return None
except_Exception(f) ==
    IF f.raised THEN [f EXCEPT !.raised = FALSE, !.value = None] ELSE f

\* fetch_image that sends the GET before it looks at the URL
fetch_image_no_strip(url, resp, have_cairosvg) ==
    except_Exception(fetch_image_try(strip(url), resp, have_cairosvg))

fetch_image(url, resp, have_cairosvg) ==
    LET u == strip(url) IN
    IF u = <<>> THEN Fetched(Returns(None), 0, <<>>, "none")
    ELSE except_Exception(fetch_image_try(u, resp, have_cairosvg))

----------------------------------------------------------------------------
(* NotificationPreview *)

COLLAPSED_TITLE == 38
COLLAPSED_BODY == 92
EXPANDED_TITLE == 52
EXPANDED_BODY == 220
CANVAS_W == 360
CANVAS_H == 180

Title == <<"T", "i", "t", "l", "e">>
Body == <<"B", "o", "d", "y">>
Placeholder == <<"rectangle", "text">>

\* the preview as __init__ leaves it
Preview(mode) ==
    [mode |-> mode, title_label |-> Title, body_label |-> Body,
     canvas |-> <<>>, photo_big |-> None]

\* ImageTk.PhotoImage(image): an exception when image is None
PhotoImage(image) == IF image = None THEN Raises ELSE Returns(image)

\* line 244: the photo of the fitted bitmap
fitted_photo(fitted) ==
    IF fitted.raised THEN Raises ELSE PhotoImage(fitted.value)

\* lines 244-245: keep the photo and draw it on the cleared canvas
show_photo(cleared, photo) ==
    IF photo.raised THEN [raised |-> TRUE, value |-> cleared]
    ELSE Returns([cleared EXCEPT !.photo_big = photo.value,
                                 !.canvas = cleared.canvas \o <<"image">>])

\* lines 233-234: int(winfo_width() or 360), int(winfo_height() or 180)
canvas_w(winfo) == IF winfo[1] # 0 THEN winfo[1] ELSE CANVAS_W
canvas_h(winfo) == IF winfo[2] # 0 THEN winfo[2] ELSE CANVAS_H

\* the big picture drawn without clearing the canvas or dropping the photo
set_big_image_stale(self, img, winfo) ==
    IF img = None
    THEN Returns([self EXCEPT !.canvas = self.canvas \o Placeholder])
    ELSE show_photo(self, fitted_photo(fit_cover(img, canvas_w(winfo),
                                                 canvas_h(winfo))))

\* lines 231-245: the big picture of the expanded preview
set_big_image(self, img, winfo) ==
    IF img = None
    THEN Returns([self EXCEPT !.canvas = Placeholder, !.photo_big = None])
    ELSE show_photo([self EXCEPT !.canvas = <<>>],
                    fitted_photo(fit_cover(img, canvas_w(winfo),
                                           canvas_h(winfo))))

\* lines 217-228: the two labels
set_labels(self, title, body) ==
    IF self.mode = "collapsed"
    THEN [self EXCEPT
            !.title_label =
                ellipsize(IF title # <<>> THEN title ELSE Title, COLLAPSED_TITLE),
            !.body_label =
                ellipsize(IF body # <<>> THEN body ELSE Body, COLLAPSED_BODY)]
    ELSE [self EXCEPT
            !.title_label =
                ellipsize(IF title # <<>> THEN title ELSE Title, EXPANDED_TITLE),
            !.body_label =
                ellipsize(IF body # <<>> THEN body ELSE Body, EXPANDED_BODY)]

\* set_content: the preview after the call, and whether the call raised
set_content(self, title, body, img, winfo) ==
    IF self.mode = "expanded"
    THEN set_big_image(set_labels(self, strip(title), strip(body)), img, winfo)
    ELSE Returns(set_labels(self, strip(title), strip(body)))

----------------------------------------------------------------------------
(* Inputs: what the user types and what the network answers *)

MaxPiece == 1      \* longest path, query and fragment of a URL, in pieces

UrlPieces == {"a", ".svg", ".SVG"}
Pieces(n) == UNION {[1..k -> UrlPieces] : k \in 0..n}

Absent == <<"absent">>

\* the URL string of a path, a query and a fragment
urlunparse(parts) ==
    parts.path
        \o (IF parts.query = Absent THEN <<>> ELSE <<"?">> \o parts.query)
        \o (IF parts.fragment = Absent THEN <<>> ELSE <<"#">> \o parts.fragment)

UrlParts ==
    [path : Pieces(MaxPiece), query : {Absent} \cup Pieces(MaxPiece),
     fragment : {Absent} \cup Pieces(MaxPiece)]

\* white space typed around a URL
Pads == {<<>>, <<SP>>}
Typed(parts, pad) == pad \o urlunparse(parts) \o pad

ContentTypes ==
    {<<>>, <<"image/png">>, <<"image/", "svg", "+xml">>, <<"IMAGE/", "SVG", "+XML">>}

ImgSizes == {<<78, 39>>, <<100, 300>>}

Datas ==
    {[kind |-> "junk", w |-> 0, h |-> 0], [kind |-> "svg", w |-> 24, h |-> 24]}
    \cup {[kind |-> "raster", w |-> z[1], h |-> z[2]] : z \in ImgSizes}

Responses ==
    [status : {"ConnectionError", "Timeout", "HTTPError"}, ctype : {<<>>},
     data : {[kind |-> "junk", w |-> 0, h |-> 0]}]
    \cup [status : {"ok"}, ctype : ContentTypes, data : Datas]

\* winfo_width(), winfo_height() of the big canvas; 0 falls back to 360 x 180
WinfoSizes == {<<0, 0>>, <<362, 182>>}

\* what the user types: a title and a body too long for the collapsed
\* preview, and three URLs
Titles == {<<SP>> \o Rep("a", COLLAPSED_TITLE + 1)}
Bodies == {Rep("a", COLLAPSED_BODY - 2) \o <<LF, "a", "a", LF>>}
AppUrls == {<<SP>>, <<"a">>, <<SP, "a", "?", ".svg">>}

\* the answers the App is tried on
AppResponses ==
    {r \in Responses : r.ctype \in {<<>>, <<"image/", "svg", "+xml">>}}

----------------------------------------------------------------------------
(* App *)

NoCall == [fn |-> "none"]

\* What the handler that ran last did: the stripped URL it read, the GETs
\* its fetch sent and what the fetch returned, the warnings it showed,
\* whether an exception left it, and the photo the expanded preview held
\* before it ran.
Ran(op, url, f, warnings, raised) ==
    [op |-> op, url |-> url, gets |-> f.gets, fetched |-> f.value,
     warnings |-> warnings, raised |-> raised, before |-> expanded.photo_big]

NoFetch == Fetched(Returns(None), 0, <<>>, "none")

\* the App as __init__ leaves it, the seeded inputs included
AppInit ==
    /\ title_var = Title
    /\ body_text = <<"a", SP, "a">>
    /\ img_var = <<>>
    /\ last_img = None
    /\ collapsed = Preview("collapsed")
    /\ expanded = Preview("expanded")
    /\ run = [op |-> "none", url |-> <<>>, gets |-> 0, fetched |-> None,
              warnings |-> 0, raised |-> FALSE, before |-> None]

\* the warning shown whenever no image came back, a URL given or not
warning_always(url, img) == IF img = None THEN 1 ELSE 0

\* lines 345-353: messagebox.showwarning, once, for a URL that gave no image
warning(url, img) == IF url # <<>> /\ img = None THEN 1 ELSE 0

\* lines 355-357: keep the image and render both previews
generate_render(url, f, c, e) ==
    /\ last_img' = f.value
    /\ collapsed' = c.value
    /\ expanded' = IF c.raised THEN expanded ELSE e.value
    /\ run' = Ran("generate", url, f, warning(url, f.value), c.raised \/ e.raised)

\* lines 344-357: generate once fetch_image has answered
generate_fetched(title, body, url, f, winfo) ==
    IF f.raised
    THEN /\ run' = Ran("generate", url, f, 0, TRUE)
         /\ UNCHANGED <<last_img, collapsed, expanded>>
    ELSE generate_render(url, f,
                         set_content(collapsed, title, body, f.value, winfo),
                         set_content(expanded, title, body, f.value, winfo))

\* lines 345-347: fetch_image is called for a URL that is not empty
generate_fetch(url, resp) ==
    IF url # <<>> THEN fetch_image(url, resp, cairosvg) ELSE NoFetch

\* App.generate, with the response the network gives and the size winfo
\* reports for the big canvas
generate(resp, winfo) ==
    generate_fetched(title_var, strip(body_text \o <<LF>>), strip(img_var),
                     generate_fetch(strip(img_var), resp), winfo)

Generate ==
    /\ \E resp \in AppResponses, winfo \in WinfoSizes : generate(resp, winfo)
    /\ UNCHANGED <<pc, args, ret, cairosvg, title_var, body_text, img_var>>

\* lines 336-337: render both previews empty
clear_render(c, e) ==
    /\ collapsed' = c.value
    /\ expanded' = IF c.raised THEN expanded ELSE e.value
    /\ run' = Ran("clear", <<>>, NoFetch, 0, c.raised \/ e.raised)

\* App.clear
Clear ==
    /\ title_var' = <<>>
    /\ body_text' = <<>>
    /\ img_var' = <<>>
    /\ last_img' = None
    /\ \E winfo \in WinfoSizes :
         clear_render(set_content(collapsed, <<>>, <<>>, None, winfo),
                      set_content(expanded, <<>>, <<>>, None, winfo))
    /\ UNCHANGED <<pc, args, ret, cairosvg>>

\* the user edits the Title entry
TypeTitle ==
    /\ \E t \in Titles : title_var' = t
    /\ UNCHANGED <<pc, args, ret, cairosvg, body_text, img_var, last_img,
                   collapsed, expanded, run>>

\* the user edits the Body text box
TypeBody ==
    /\ \E b \in Bodies : body_text' = b
    /\ UNCHANGED <<pc, args, ret, cairosvg, title_var, img_var, last_img,
                   collapsed, expanded, run>>

\* the user edits the Image URL entry
TypeUrl ==
    /\ \E u \in AppUrls : img_var' = u
    /\ UNCHANGED <<pc, args, ret, cairosvg, title_var, body_text, last_img,
                   collapsed, expanded, run>>

Init ==
    /\ pc = "idle"
    /\ args = NoCall
    /\ ret = NoCall
    /\ cairosvg \in BOOLEAN
    /\ AppInit

Next == Generate \/ Clear \/ TypeTitle \/ TypeBody \/ TypeUrl

Spec == Init /\ [][Next]_vars

----------------------------------------------------------------------------
(* ellipsize on its own, and set_content of the collapsed preview on a     *)
(* body about as long as its budget                                        *)

LongBodies ==
    {Rep("a", COLLAPSED_BODY - k) \o t : k \in 0..MaxTail, t \in Strings(MaxTail + 1)}

InitEllipsize ==
    /\ pc = "call"
    /\ args \in [fn : {"ellipsize"}, text : Strings(MaxLen), max_chars : 0..MaxBudget]
                \cup [fn : {"set_content"}, title : {<<>>}, body : LongBodies]
    /\ ret = NoCall
    /\ cairosvg = TRUE
    /\ AppInit

CallEllipsize ==
    /\ pc = "call"
    /\ args.fn = "ellipsize"
    /\ pc' = "return"
    /\ ret' = ellipsize(args.text, args.max_chars)
    /\ UNCHANGED <<args, cairosvg, appVars>>

CallSetContent ==
    /\ pc = "call"
    /\ args.fn = "set_content"
    /\ pc' = "return"
    /\ collapsed' = set_content(collapsed, args.title, args.body, None, <<0, 0>>).value
    /\ UNCHANGED <<args, ret, cairosvg, title_var, body_text, img_var, last_img,
                   expanded, run>>

NextEllipsize == CallEllipsize \/ CallSetContent

SpecEllipsize == InitEllipsize /\ [][NextEllipsize]_vars

----------------------------------------------------------------------------
(* fit_cover on its own: one call on a source bitmap and a target box *)

MaxSrc == 49       \* largest width and height of the source bitmap
MaxBox == 2        \* largest width and height of the target box

InitFit ==
    /\ pc = "call"
    /\ args \in [fn : {"fit_cover"},
                 img : {Bitmap(iw, ih) : iw \in 1..MaxSrc, ih \in 1..MaxSrc},
                 target_w : 1..MaxBox, target_h : 1..MaxBox]
                \cup [fn : {"fit_cover"},
                      img : {Bitmap(z[1], z[2]) : z \in ImgSizes},
                      target_w : {CANVAS_W}, target_h : {CANVAS_H}]
    /\ ret = NoCall
    /\ cairosvg = TRUE
    /\ AppInit

CallFitCover ==
    /\ pc = "call"
    /\ args.fn = "fit_cover"
    /\ pc' = "return"
    /\ ret' = [out |-> fit_cover(args.img, args.target_w, args.target_h),
               locals |-> fit_cover_scale(args.img, args.target_w, args.target_h)]
    /\ UNCHANGED <<args, cairosvg, appVars>>

NextFit == CallFitCover

SpecFit == InitFit /\ [][NextFit]_vars

----------------------------------------------------------------------------
(* fetch_image on its own, and generate on the App as built, on a URL made *)
(* of a path, a query and a fragment with white space around it            *)

InitFetch ==
    /\ pc = "call"
    /\ args \in [fn : {"fetch_image"}, parts : UrlParts, pad : Pads,
                 resp : Responses]
                \cup [fn : {"generate"},
                      parts : {p \in UrlParts : p.fragment = Absent}, pad : Pads,
                      resp : {r \in AppResponses : r.status \in {"ok", "Timeout"}},
                      winfo : {<<0, 0>>}]
    /\ ret = NoCall
    /\ cairosvg \in BOOLEAN
    /\ title_var = Title
    /\ body_text = <<"a", SP, "a">>
    /\ img_var = IF args.fn = "generate" THEN Typed(args.parts, args.pad) ELSE <<>>
    /\ last_img = None
    /\ collapsed = Preview("collapsed")
    /\ expanded = Preview("expanded")
    /\ run = [op |-> "none", url |-> <<>>, gets |-> 0, fetched |-> None,
              warnings |-> 0, raised |-> FALSE, before |-> None]

CallFetchImage ==
    /\ pc = "call"
    /\ args.fn = "fetch_image"
    /\ pc' = "return"
    /\ ret' = fetch_image(Typed(args.parts, args.pad), args.resp, cairosvg)
    /\ UNCHANGED <<args, cairosvg, appVars>>

CallGenerate ==
    /\ pc = "call"
    /\ args.fn = "generate"
    /\ pc' = "return"
    /\ generate(args.resp, args.winfo)
    /\ UNCHANGED <<args, ret, cairosvg, title_var, body_text, img_var>>

NextFetch == CallFetchImage \/ CallGenerate

SpecFetch == InitFetch /\ [][NextFetch]_vars

----------------------------------------------------------------------------
(* Claims *)

\* the text of the claims: line feeds replaced by spaces, then trimmed
RECURSIVE Trimmed(_)
Trimmed(s) ==
    IF s = <<>> THEN s
    ELSE IF s[1] \in Whitespace THEN Trimmed(SubSeq(s, 2, Len(s)))
    ELSE IF s[Len(s)] \in Whitespace THEN Trimmed(SubSeq(s, 1, Len(s) - 1))
    ELSE s

Normalized(text) ==
    Trimmed([i \in 1..Len(text) |-> IF text[i] = LF THEN SP ELSE text[i]])

Returned(fn) == pc = "return" /\ args.fn = fn

\* C1: for a budget N >= 1, ellipsize returns at most N characters, none of
\* them a line feed; so does the body the collapsed preview shows.
C1_WithinBudget ==
    /\ Returned("ellipsize") /\ args.max_chars >= 1 =>
         /\ Len(ret) <= args.max_chars
         /\ \A i \in 1..Len(ret) : ret[i] # LF
    /\ Returned("set_content") =>
         /\ Len(collapsed.body_label) <= COLLAPSED_BODY
         /\ \A i \in 1..Len(collapsed.body_label) : collapsed.body_label[i] # LF

\* C1 witness: a text with a line feed, longer than the budget, was cut
C1_Witness ==
    /\ Returned("ellipsize")
    /\ args.max_chars >= 2
    /\ \E i \in 1..Len(args.text) : args.text[i] = LF
    /\ Len(Normalized(args.text)) > args.max_chars
    /\ Len(ret) = args.max_chars

\* C2 as stated: a normalized text longer than N comes back with length
\* exactly N, ending in the marker; a body longer than 92 characters shows as
\* exactly 92 characters in the collapsed preview.
C2_ExactlyBudget ==
    /\ Returned("ellipsize") /\ args.max_chars >= 1
         /\ Len(Normalized(args.text)) > args.max_chars =>
         /\ ret[Len(ret)] = ELLIPSIS
         /\ Len(ret) = args.max_chars
    /\ Returned("set_content") /\ Len(Normalized(args.body)) > COLLAPSED_BODY =>
         /\ collapsed.body_label[Len(collapsed.body_label)] = ELLIPSIS
         /\ Len(collapsed.body_label) = COLLAPSED_BODY

\* the cut of a text t longer than n: it ends in the marker, has at most n
\* characters, and has n of them exactly when n = 1 or character n - 1 of t
\* is no white space
CutTo(out, t, n) ==
    /\ out # <<>>
    /\ out[Len(out)] = ELLIPSIS
    /\ Len(out) <= n
    /\ Len(out) = n <=> (n = 1 \/ t[n - 1] \notin Whitespace)

\* C2 amended: a normalized text longer than N comes back ending in the
\* marker with at most N characters, exactly N when N = 1 or the character
\* at position N - 1 of the normalized text is no white space; the same for
\* the collapsed body and its 92 characters.
C2_AtMostBudget ==
    /\ Returned("ellipsize") /\ args.max_chars >= 1
         /\ Len(Normalized(args.text)) > args.max_chars =>
         CutTo(ret, Normalized(args.text), args.max_chars)
    /\ Returned("set_content") /\ Len(Normalized(args.body)) > COLLAPSED_BODY =>
         CutTo(collapsed.body_label, Normalized(args.body), COLLAPSED_BODY)

\* C2 witness: the cut fell after white space and the result is shorter
C2_Witness ==
    /\ Returned("set_content")
    /\ Len(Normalized(args.body)) > COLLAPSED_BODY
    /\ Normalized(args.body)[COLLAPSED_BODY - 1] \in Whitespace
    /\ Len(collapsed.body_label) < COLLAPSED_BODY
    /\ collapsed.body_label[Len(collapsed.body_label)] = ELLIPSIS

\* C3: for a source bitmap and a target box of positive sizes, fit_cover
\* returns a bitmap of exactly the size of the box.
C3_ExactBox ==
    Returned("fit_cover") =>
        /\ ~ret.out.raised
        /\ ret.out.value = Bitmap(args.target_w, args.target_h)

\* C10: the scaled size covers the box on both axes, matches it on one, and
\* the centred crop box lies inside the scaled bitmap.
C10_ScaledCoversBox ==
    Returned("fit_cover") =>
        /\ ret.locals.nw >= args.target_w
        /\ ret.locals.nh >= args.target_h
        /\ ret.locals.nw = args.target_w \/ ret.locals.nh = args.target_h
        /\ ret.locals.left >= 0 /\ ret.locals.top >= 0
        /\ ret.locals.left + args.target_w <= ret.locals.nw
        /\ ret.locals.top + args.target_h <= ret.locals.nh

IsBlank(url) == \A i \in 1..Len(url) : url[i] \in Whitespace

\* C4: fetch_image returns a bitmap or None and lets no exception out.
C4_NeverRaises ==
    Returned("fetch_image") =>
        /\ ~ret.raised
        /\ ret.value = None \/ ret.value.kind = "Image"

\* C4 witness: the GET failed, or the body could not be decoded, and None
\* came back
C4_Witness ==
    /\ Returned("fetch_image")
    /\ ~IsBlank(Typed(args.parts, args.pad))
    /\ args.resp.status = "ConnectionError"
    /\ ~ret.raised
    /\ ret.value = None

\* C5: a blank URL gives None with no GET; any other URL gives exactly one
\* GET whatever its outcome; a generate action sends at most one GET.
C5_OneGet ==
    /\ Returned("fetch_image") =>
         IF IsBlank(Typed(args.parts, args.pad))
         THEN ret.gets = 0 /\ ret.value = None
         ELSE ret.gets = 1
    /\ Returned("generate") =>
         /\ run.gets <= 1
         /\ run.gets = 0 <=> IsBlank(img_var)

\* C5 witness: a URL of white space only gave None without a GET
C5_Witness ==
    /\ Returned("fetch_image")
    /\ Typed(args.parts, args.pad) # <<>>
    /\ IsBlank(Typed(args.parts, args.pad))
    /\ ret.gets = 0
    /\ ret.value = None

EndsInSvg(s) == s # <<>> /\ s[Len(s)] \in {".svg", ".SVG"}
DeclaresSvg(ctype) == \E i \in 1..Len(ctype) : ctype[i] \in {"svg", "SVG"}

\* the URL as a whole ends in ".svg": its last component does
UrlEndsInSvg(parts) ==
    IF parts.fragment # Absent THEN EndsInSvg(parts.fragment)
    ELSE IF parts.query # Absent THEN EndsInSvg(parts.query)
    ELSE EndsInSvg(parts.path)

\* C6 as stated: a fetched response is vector exactly when its content type
\* contains "svg" or the path of the URL ends in ".svg".
C6_PathOrType ==
    Returned("fetch_image") /\ ret.class # "none" =>
        (ret.class = "vector" <=>
            DeclaresSvg(args.resp.ctype) \/ EndsInSvg(args.parts.path))

\* C6 amended: a fetched response is vector exactly when its content type
\* contains "svg", or the path of the URL ends in ".svg", or the URL as a
\* whole does (its query or its fragment ends in ".svg"); it is raster
\* otherwise.
C6_PathTypeOrUrl ==
    Returned("fetch_image") /\ ret.class # "none" =>
        /\ ret.class \in {"vector", "raster"}
        /\ ret.class = "vector" <=>
             \/ DeclaresSvg(args.resp.ctype)
             \/ EndsInSvg(args.parts.path)
             \/ UrlEndsInSvg(args.parts)

\* C6 witness: ".svg" ends the query only, and the response is vector
C6_Witness ==
    /\ Returned("fetch_image")
    /\ ~DeclaresSvg(args.resp.ctype)
    /\ ~EndsInSvg(args.parts.path)
    /\ args.parts.query # Absent /\ EndsInSvg(args.parts.query)
    /\ ret.class = "vector"

\* C7: a vector response with no rasterizer, or whose rasterization fails,
\* gives None, and the response body is never handed to the raster decoder.
C7_NoRasterFallback ==
    Returned("fetch_image") /\ ret.class = "vector" =>
        /\ \A i \in 1..Len(ret.opened) : ret.opened[i] # "data"
        /\ ~cairosvg \/ args.resp.data.kind # "svg" => ret.value = None

\* C7 witness: a raster body classified as vector gave None, undecoded
C7_Witness ==
    /\ Returned("fetch_image")
    /\ ret.class = "vector"
    /\ args.resp.data.kind = "raster"
    /\ ret.value = None
    /\ ret.opened = <<>>

\* C8: generate shows one warning when the trimmed URL is not empty and the
\* fetch gave None, and none otherwise; after the warning it still renders
\* both previews and lets no exception out.
C8_OneWarning ==
    run.op = "generate" =>
        /\ run.warnings = IF run.url # <<>> /\ run.fetched = None THEN 1 ELSE 0
        /\ run.warnings = 1 =>
             /\ ~run.raised
             /\ last_img = None
             /\ expanded.canvas = Placeholder
             /\ expanded.photo_big = None

\* C8 witness: a generate whose fetch of a URL failed showed its warning
C8_Witness ==
    /\ run.op = "generate"
    /\ run.url # <<>>
    /\ run.fetched = None
    /\ run.warnings = 1
    /\ expanded.canvas = Placeholder

\* C9: after any generate or clear the expanded preview holds a fitted image
\* exactly when that action was a generate whose fetch returned a bitmap,
\* drawn alone on the canvas; otherwise the canvas shows the placeholder
\* alone.
C9_LastActionDecides ==
    run.op # "none" =>
        /\ expanded.photo_big # None <=> run.op = "generate" /\ run.fetched # None
        /\ expanded.canvas =
             IF expanded.photo_big # None THEN <<"image">> ELSE Placeholder
        /\ last_img = run.fetched

\* C9 witness: a clear after a generate that had drawn an image
C9_Witness ==
    /\ run.op = "clear"
    /\ run.before # None
    /\ expanded.photo_big = None
    /\ expanded.canvas = Placeholder


====
